---- MODULE Spec2Model ----
(***************************************************************************)
(* Model of clg/spinner.py: class Spinner (a threading.Thread) and the     *)
(* caller thread that drives it through info / verbose / debug / warn /    *)
(* error / stop.                                                           *)
(*                                                                         *)
(* Granularity: one step per source statement.  The two threads share the  *)
(* attributes of the Spinner object without any lock, so every statement   *)
(* of run(), stop() and log() is a separate action and the threads         *)
(* interleave freely between statements.                                   *)
(***************************************************************************)
EXTENDS Integers, Sequences, FiniteSets, TLC

\* ------------------------------------------------------------------ bounds
\* calls the caller thread makes
MaxCalls == 2
\* frames after which _stop_event.wait(0.2) no longer times out
MaxFrames == 2

\* ------------------------------------------------------------------ inputs
None == "None"
Msgs == {"m1", "m2"}

\* keyword arguments are functions from a set of option names to values
Kw(D, q, r, c) ==
    [k \in D |-> CASE k = "quit" -> q
                   [] k = "return_code" -> r
                   [] OTHER -> c]

EmptyKw == Kw({}, FALSE, 0, TRUE)

\* the keyword arguments the caller passes to warn / error
DeferKwargs ==
    { EmptyKw,
      Kw({"quit"}, TRUE, 0, TRUE),
      Kw({"return_code", "confirm"}, FALSE, 3, TRUE),
      Kw({"quit", "return_code"}, TRUE, 3, TRUE) }

\* the keyword arguments the caller passes to verbose / debug / info
PassKwargs == { EmptyKw, Kw({"confirm"}, FALSE, 0, TRUE) }

\* ------------------------------------------------- dict.pop(key, default)
PopValue(kw, k, d) == IF k \in DOMAIN kw THEN kw[k] ELSE d
\* variant: the key is read but left in the dictionary
PopRest_Keep(kw, k) == kw

PopRest(kw, k) == [x \in (DOMAIN kw) \ {k} |-> kw[x]]

\* f(return_code=rc, **kw)
WithReturnCode(kw, rc) ==
    [x \in (DOMAIN kw) \cup {"return_code"} |->
        IF x = "return_code" THEN rc ELSE kw[x]]

\* itertools.cycle(['-', '\\', '|', '/'])
Glyphs == << "-", "\\", "|", "/" >>
NextGlyph(i) == (i % 4) + 1

VARIABLES
    stop_event,     \* self._stop_event.isSet()
    msg,            \* self.msg
    messages,       \* self.messages: the thunks, as [level, msg, kw]
    quit,           \* self.quit
    return_code,    \* self.return_code
    glyph,          \* position of the class-level cycle iterator
    bgpc,           \* statement the background thread is at
    it,             \* index of the list iterator of `for message in ...`
    cur,            \* the thunk fetched by the for statement
    cpc,            \* statement the caller thread is at
    lmsg, llevel, lkw,  \* locals of the caller's current call
    procExit,       \* whether os._exit was called, and with which status
    stopCalls,      \* number of times Spinner.stop was entered
    stdout,         \* what was written to sys.stdout, in order
    sink,           \* calls received by event_hdl, in order
    calls,          \* calls issued by the caller thread, in order
    startedAt,      \* Len(calls) when the thread was started, -1 before
    \* the start() context manager and the module-level reference
    spinners,       \* the Spinner objects created by start(), in order
    gspinner,       \* module attribute `spinner`: index in spinners, 0 unset
    ctx,            \* start() generators not ended, innermost last, by
                    \* spinner
    depth,          \* with statements the main thread is inside
    mpc,            \* statement the main thread is at
    exc,            \* exception being propagated in the main thread
    exitStatus,     \* status the interpreter exits with when it shuts down
    interrupted,    \* a KeyboardInterrupt was raised inside a try block
    escaped,        \* a KeyboardInterrupt was raised in an except / finally
    glued           \* a KeyboardInterrupt was raised between a with
                    \* statement and its generator

\* the attributes and threads of one Spinner object
objvars == << stop_event, msg, messages, quit, return_code, glyph, bgpc, it,
              cur, cpc, lmsg, llevel, lkw, stopCalls, stdout, sink, calls,
              startedAt >>

\* the start() contexts of the module
ctxvars == << spinners, gspinner, ctx, depth, mpc, exc, exitStatus,
             interrupted, escaped, glued >>

vars == << objvars, procExit, ctxvars >>

shared == << stop_event, msg, messages, quit, return_code >>
bgvars == << glyph, bgpc, it, cur >>
callervars == << cpc, lmsg, llevel, lkw, calls, stopCalls, startedAt >>

NoThunk == [level |-> None, msg |-> None, kw |-> EmptyKw]

Running == [exited |-> FALSE, status |-> 0]

Alive == ~procExit.exited

\* Spinner.__init__
Init ==
    /\ stop_event = FALSE
    /\ msg = None
    /\ messages = << >>
    /\ quit = FALSE
    /\ return_code = 0
    /\ glyph = 1
    /\ bgpc = "unstarted"
    /\ it = 1
    /\ cur = NoThunk
    /\ cpc = "idle"
    /\ lmsg = None
    /\ llevel = None
    /\ lkw = EmptyKw
    /\ procExit = Running
    /\ stopCalls = 0
    /\ stdout = << >>
    /\ sink = << >>
    /\ calls = << >>
    /\ startedAt = -1
    /\ spinners = << >>
    /\ gspinner = 0
    /\ ctx = << >>
    /\ depth = 0
    /\ mpc = "body"
    /\ exc = "none"
    /\ exitStatus = 0
    /\ interrupted = FALSE
    /\ escaped = FALSE
    /\ glued = FALSE

\* ------------------------------------------------------- background thread
Frame(g, m) == [by |-> "run", kind |-> "frame", glyph |-> Glyphs[g], msg |-> m]
EraseK == [by |-> "run", kind |-> "erase", glyph |-> "", msg |-> None]
EraseSmallK == [by |-> "stop", kind |-> "2k", glyph |-> "", msg |-> None]

NumFrames(out) == Cardinality({i \in 1..Len(out) : out[i].kind = "frame"})

\* threading.Thread.start(), called by the caller thread
Start ==
    /\ Alive /\ cpc = "idle" /\ bgpc = "unstarted"
    /\ bgpc' = "while"
    /\ startedAt' = Len(calls)
    /\ UNCHANGED << shared, glyph, it, cur, cpc, lmsg, llevel,
                    lkw, calls, stopCalls, procExit, stdout, sink, ctxvars >>

\* variant: the loop is left although the stop event is not set
RunWhile_NoStopTest ==
    /\ Alive /\ bgpc = "while"
    /\ bgpc' = "erase"
    /\ UNCHANGED << shared, glyph, it, cur, callervars, procExit,
                    stdout, sink, ctxvars >>

\* while not self._stop_event.isSet():
RunWhile ==
    /\ Alive /\ bgpc = "while"
    /\ bgpc' = IF stop_event THEN "erase" ELSE "ifmsg"
    /\ UNCHANGED << shared, glyph, it, cur, callervars, procExit,
                    stdout, sink, ctxvars >>

\* if self.msg is not None:
RunIfMsg ==
    /\ Alive /\ bgpc = "ifmsg"
    /\ bgpc' = IF msg # None THEN "render" ELSE "wait"
    /\ UNCHANGED << shared, glyph, it, cur, callervars, procExit,
                    stdout, sink, ctxvars >>

\* sys.stdout.write("\x1b[2K\r%s %s" % (next(self.spinner), self.msg))
\* The frame shows self.msg as it is when this statement runs, which may be
\* None if stop() cleared it after the test of line 41.
RunRender ==
    /\ Alive /\ bgpc = "render"
    /\ stdout' = Append(stdout, Frame(glyph, msg))
    /\ glyph' = NextGlyph(glyph)
    /\ bgpc' = "wait"
    /\ UNCHANGED << shared, it, cur, callervars, procExit, sink,
                    ctxvars >>

\* self._stop_event.wait(0.2): returns when the event is set or on timeout
RunWait ==
    /\ Alive /\ bgpc = "wait"
    /\ stop_event \/ NumFrames(stdout) < MaxFrames
    /\ bgpc' = "while"
    /\ UNCHANGED << shared, glyph, it, cur, callervars, procExit,
                    stdout, sink, ctxvars >>

\* variant: the loop is left without the final erase
RunErase_NoWrite ==
    /\ Alive /\ bgpc = "erase"
    /\ it' = 1
    /\ bgpc' = "for"
    /\ UNCHANGED << shared, glyph, cur, callervars, procExit,
                    stdout, sink, ctxvars >>

\* variant: after the final erase the thread polls again
RunErase_Repoll ==
    /\ Alive /\ bgpc = "erase"
    /\ stdout' = Append(stdout, EraseK)
    /\ it' = 1
    /\ bgpc' = "while"
    /\ UNCHANGED << shared, glyph, cur, callervars, procExit,
                    sink, ctxvars >>

\* sys.stdout.write("\x1b[2K\r") after the loop
RunErase ==
    /\ Alive /\ bgpc = "erase"
    /\ stdout' = Append(stdout, EraseK)
    /\ it' = 1
    /\ bgpc' = "for"
    /\ UNCHANGED << shared, glyph, cur, callervars, procExit,
                    sink, ctxvars >>

\* variant: the list is cleared when the iterator is exhausted
RunFor_Clear ==
    /\ Alive /\ bgpc = "for"
    /\ IF it <= Len(messages)
          THEN /\ cur' = messages[it]
               /\ it' = it + 1
               /\ bgpc' = "call"
               /\ messages' = messages
          ELSE /\ cur' = cur
               /\ it' = it
               /\ bgpc' = "ifquit"
               /\ messages' = << >>
    /\ UNCHANGED << stop_event, msg, quit, return_code, glyph, callervars,
                    procExit, stdout, sink, ctxvars >>

\* for message in self.messages: the list iterator yields the next element
\* while its index is inside the list as it is now
RunFor ==
    /\ Alive /\ bgpc = "for"
    /\ IF it <= Len(messages)
          THEN /\ cur' = messages[it]
               /\ it' = it + 1
               /\ bgpc' = "call"
          ELSE /\ cur' = cur
               /\ it' = it
               /\ bgpc' = "ifquit"
    /\ UNCHANGED << shared, glyph, callervars, procExit, stdout, sink,
                    ctxvars >>

\* the thunk: getattr(self.event_hdl, loglevel)(msg, **kwargs)
Thunk(t) == [level |-> t.level, msg |-> t.msg, kw |-> t.kw]

\* message()
RunCall ==
    /\ Alive /\ bgpc = "call"
    /\ sink' = Append(sink, Thunk(cur))
    /\ bgpc' = "for"
    /\ UNCHANGED << shared, glyph, it, cur, callervars, procExit,
                    stdout, ctxvars >>

\* if self.quit:
RunIfQuit ==
    /\ Alive /\ bgpc = "ifquit"
    /\ bgpc' = IF quit THEN "exit" ELSE "finished"
    /\ UNCHANGED << shared, glyph, it, cur, callervars, procExit,
                    stdout, sink, ctxvars >>

\* os._exit(self.return_code)
RunExit ==
    /\ Alive /\ bgpc = "exit"
    /\ procExit' = [exited |-> TRUE, status |-> return_code]
    /\ bgpc' = "exited"
    /\ UNCHANGED << shared, glyph, it, cur, callervars, stdout,
                    sink, ctxvars >>

\* ------------------------------------------------------------ caller thread
CanCall == Alive /\ cpc = "idle" /\ Len(calls) < MaxCalls

Call(op, m, kw) == [op |-> op, msg |-> m, kw |-> kw]

\* variant: the call is buffered like a warn / error call
PassThrough_Buffered(level) ==
    /\ CanCall
    /\ \E m \in Msgs, kw \in PassKwargs :
          /\ messages' = Append(messages,
                                [level |-> level, msg |-> m, kw |-> kw])
          /\ calls' = Append(calls, Call(level, m, kw))
    /\ UNCHANGED << stopCalls, startedAt, stop_event, msg, quit, return_code,
                    bgvars, cpc, lmsg, llevel, lkw, procExit, stdout, sink,
                    ctxvars >>

\* Spinner.verbose / Spinner.debug
PassThrough(level) ==
    /\ CanCall
    /\ \E m \in Msgs, kw \in PassKwargs :
          /\ sink' = Append(sink, [level |-> level, msg |-> m, kw |-> kw])
          /\ calls' = Append(calls, Call(level, m, kw))
    /\ UNCHANGED << stopCalls, startedAt, shared, bgvars, cpc, lmsg, llevel,
                    lkw, procExit, stdout, ctxvars >>

Verbose == PassThrough("verbose")

Debug == PassThrough("debug")

\* variant: a message that is already displayed is kept
Info_FirstWins ==
    /\ CanCall
    /\ \E m \in Msgs, kw \in PassKwargs :
          /\ msg' = IF msg = None THEN m ELSE msg
          /\ calls' = Append(calls, Call("info", m, kw))
    /\ cpc' = "info_sleep"
    /\ UNCHANGED << stopCalls, startedAt, stop_event, messages, quit,
                    return_code, bgvars, lmsg, llevel, lkw, procExit, stdout,
                    sink, ctxvars >>

\* Spinner.info: self.msg = msg
Info ==
    /\ CanCall
    /\ \E m \in Msgs, kw \in PassKwargs :
          /\ msg' = m
          /\ calls' = Append(calls, Call("info", m, kw))
    /\ cpc' = "info_sleep"
    /\ UNCHANGED << stopCalls, startedAt, stop_event, messages, quit,
                    return_code, bgvars, lmsg, llevel, lkw, procExit, stdout,
                    sink, ctxvars >>

\* Spinner.info: time.sleep(0.1)
InfoSleep ==
    /\ Alive /\ cpc = "info_sleep"
    /\ cpc' = "idle"
    /\ UNCHANGED << stopCalls, startedAt, shared, bgvars, lmsg, llevel, lkw,
                    calls, procExit, stdout, sink, ctxvars >>

\* Spinner.warn: self.log(msg, 'warn', **kwargs)
Warn ==
    /\ CanCall
    /\ \E m \in Msgs, kw \in DeferKwargs :
          /\ lmsg' = m
          /\ llevel' = "warn"
          /\ lkw' = kw
          /\ calls' = Append(calls, Call("warn", m, kw))
    /\ cpc' = "log_quit"
    /\ UNCHANGED << stopCalls, startedAt, shared, bgvars, procExit, stdout,
                    sink, ctxvars >>

\* variant: error passes quit=True unless the caller says otherwise
Error_ImpliesQuit ==
    /\ CanCall
    /\ \E m \in Msgs, kw \in DeferKwargs :
          /\ lmsg' = m
          /\ llevel' = "error"
          /\ lkw' = [x \in (DOMAIN kw) \cup {"return_code", "quit"} |->
                        CASE x = "return_code" ->
                                 PopValue(kw, "return_code", 1)
                          [] x = "quit" -> PopValue(kw, "quit", TRUE)
                          [] OTHER -> kw[x]]
          /\ calls' = Append(calls, Call("error", m, kw))
    /\ cpc' = "log_quit"
    /\ UNCHANGED << stopCalls, startedAt, shared, bgvars, procExit, stdout,
                    sink, ctxvars >>

\* Spinner.error:
\* self.log(msg, 'error', return_code=kwargs.pop('return_code', 1), **kwargs)
Error ==
    /\ CanCall
    /\ \E m \in Msgs, kw \in DeferKwargs :
          /\ lmsg' = m
          /\ llevel' = "error"
          /\ lkw' = WithReturnCode(PopRest(kw, "return_code"),
                                   PopValue(kw, "return_code", 1))
          /\ calls' = Append(calls, Call("error", m, kw))
    /\ cpc' = "log_quit"
    /\ UNCHANGED << stopCalls, startedAt, shared, bgvars, procExit, stdout,
                    sink, ctxvars >>

\* Spinner.log: self.quit = kwargs.pop('quit', False)
LogQuit ==
    /\ Alive /\ cpc = "log_quit"
    /\ quit' = PopValue(lkw, "quit", FALSE)
    /\ lkw' = PopRest(lkw, "quit")
    /\ cpc' = "log_rc"
    /\ UNCHANGED << stopCalls, startedAt, stop_event, msg, messages,
                    return_code, bgvars, lmsg, llevel, calls, procExit,
                    stdout, sink, ctxvars >>

\* Spinner.log: self.return_code = kwargs.pop('return_code', 0)
LogReturnCode ==
    /\ Alive /\ cpc = "log_rc"
    /\ return_code' = PopValue(lkw, "return_code", 0)
    /\ lkw' = PopRest(lkw, "return_code")
    /\ cpc' = "log_append"
    /\ UNCHANGED << stopCalls, startedAt, stop_event, msg, messages, quit,
                    bgvars, lmsg, llevel, calls, procExit, stdout, sink,
                    ctxvars >>

\* variant: the thunk is inserted at the front of the list
LogAppend_Front ==
    /\ Alive /\ cpc = "log_append"
    /\ messages' = << [level |-> llevel, msg |-> lmsg, kw |-> lkw] >>
                        \o messages
    /\ cpc' = "log_ifquit"
    /\ UNCHANGED << stopCalls, startedAt, stop_event, msg, quit, return_code,
                    bgvars, lmsg, llevel, lkw, calls, procExit, stdout, sink,
                    ctxvars >>

\* Spinner.log: self.messages.append(lambda: ...)
LogAppend ==
    /\ Alive /\ cpc = "log_append"
    /\ messages' = Append(messages,
                          [level |-> llevel, msg |-> lmsg, kw |-> lkw])
    /\ cpc' = "log_ifquit"
    /\ UNCHANGED << stopCalls, startedAt, stop_event, msg, quit, return_code,
                    bgvars, lmsg, llevel, lkw, calls, procExit, stdout, sink,
                    ctxvars >>

\* Spinner.log: if self.quit: self.stop()
LogIfQuit ==
    /\ Alive /\ cpc = "log_ifquit"
    /\ IF quit
          THEN cpc' = "stop_set" /\ stopCalls' = stopCalls + 1
          ELSE cpc' = "idle" /\ stopCalls' = stopCalls
    /\ UNCHANGED << shared, bgvars, lmsg, llevel, lkw, calls, procExit,
                    startedAt, stdout, sink, ctxvars >>

\* the caller calls Spinner.stop
Stop ==
    /\ CanCall
    /\ calls' = Append(calls, Call("stop", None, EmptyKw))
    /\ cpc' = "stop_set"
    /\ stopCalls' = stopCalls + 1
    /\ UNCHANGED << shared, bgvars, lmsg, llevel, lkw, procExit, startedAt,
                    stdout, sink, ctxvars >>

\* variant: the event is toggled instead of set
StopSet_Toggle ==
    /\ Alive /\ cpc = "stop_set"
    /\ stop_event' = ~stop_event
    /\ cpc' = "stop_msg"
    /\ UNCHANGED << stopCalls, startedAt, msg, messages, quit, return_code,
                    bgvars, lmsg, llevel, lkw, calls, procExit, stdout, sink,
                    ctxvars >>

\* Spinner.stop: self._stop_event.set()
StopSet ==
    /\ Alive /\ cpc = "stop_set"
    /\ stop_event' = TRUE
    /\ cpc' = "stop_msg"
    /\ UNCHANGED << stopCalls, startedAt, msg, messages, quit, return_code,
                    bgvars, lmsg, llevel, lkw, calls, procExit, stdout, sink,
                    ctxvars >>

\* Spinner.stop: self.msg = None
StopMsg ==
    /\ Alive /\ cpc = "stop_msg"
    /\ msg' = None
    /\ cpc' = "stop_write"
    /\ UNCHANGED << stopCalls, startedAt, stop_event, messages, quit,
                    return_code, bgvars, lmsg, llevel, lkw, calls, procExit,
                    stdout, sink, ctxvars >>

\* Spinner.stop: sys.stdout.write("\x1b[2k\r")
StopWrite ==
    /\ Alive /\ cpc = "stop_write"
    /\ stdout' = Append(stdout, EraseSmallK)
    /\ cpc' = "stop_sleep"
    /\ UNCHANGED << stopCalls, startedAt, shared, bgvars, lmsg, llevel, lkw,
                    calls, procExit, sink, ctxvars >>

\* Spinner.stop: time.sleep(0.1), then stop() (and log(), if it called stop)
\* returns
StopSleep ==
    /\ Alive /\ cpc = "stop_sleep"
    /\ cpc' = "idle"
    /\ UNCHANGED << stopCalls, startedAt, shared, bgvars, lmsg, llevel, lkw,
                    calls, procExit, stdout, sink, ctxvars >>

Next ==
    \/ Start
    \/ RunWhile
    \/ RunIfMsg
    \/ RunRender
    \/ RunWait
    \/ RunErase
    \/ RunFor
    \/ RunCall
    \/ RunIfQuit
    \/ RunExit
    \/ Verbose
    \/ Debug
    \/ Info
    \/ InfoSleep
    \/ Warn
    \/ Error
    \/ LogQuit
    \/ LogReturnCode
    \/ LogAppend
    \/ LogIfQuit
    \/ Stop
    \/ StopSet
    \/ StopMsg
    \/ StopWrite
    \/ StopSleep

Spec == Init /\ [][Next]_vars

\* the statements of run()
RunNext ==
    \/ RunWhile
    \/ RunIfMsg
    \/ RunRender
    \/ RunWait
    \/ RunErase
    \/ RunFor
    \/ RunCall
    \/ RunIfQuit
    \/ RunExit

\* the statements of the caller thread
CallerNext ==
    \/ Start
    \/ Verbose
    \/ Debug
    \/ Info
    \/ InfoSleep
    \/ Warn
    \/ Error
    \/ LogQuit
    \/ LogReturnCode
    \/ LogAppend
    \/ LogIfQuit
    \/ Stop
    \/ StopSet
    \/ StopMsg
    \/ StopWrite
    \/ StopSleep

NextLive == RunNext \/ CallerNext

\* The background thread keeps being scheduled while it has a statement to
\* run, and a caller that has entered stop() runs its first statement.
SpecLive ==
    Init /\ [][NextLive]_vars /\ WF_vars(RunNext) /\ WF_vars(StopSet)

\* ------------------------------------------- start() and the module level
\* The contexts opened with start(), the Spinner each one creates and the
\* module attribute `spinner` that stop / warn / error go through.  A
\* Spinner is reduced here to its stop event, its quit request and the
\* position of its thread in run(); info, verbose and debug change none of
\* these.  The main thread runs one statement per step, and a
\* KeyboardInterrupt can be raised between any two of them while the main
\* thread is inside a with statement: in the start() generator, in the
\* body, or in the code of contextlib that takes the main thread from one
\* to the other.

\* start() contexts the program opens
MaxCtx == 2

\* return codes the warn / error calls of the body end up with
QuitCodes == {0, 1, 3}

\* Spinner(): the object of line 90, its thread not started yet
NewSpinner ==
    [stop_event |-> FALSE, run |-> "unstarted", quit |-> FALSE,
     return_code |-> 0, entered |-> FALSE, closed |-> FALSE]

MainRuns == ~procExit.exited

\* status of a process whose main thread ended on an uncaught
\* KeyboardInterrupt: the interpreter kills itself with SIGINT
KilledBySigInt == -2

\* status the interpreter exits with when the main thread ends with e
StatusOf(e) ==
    CASE e = "none" -> 0
      [] e = "KeyboardInterrupt" -> KilledBySigInt
      [] OTHER -> 1

\* the start() generator of the with statement the main thread is in; its
\* Spinner is 0 before line 90 ran
Top == ctx[depth]

\* the generators that have not ended, without the one of the with
\* statement the main thread is in
Rest == SubSeq(ctx, 1, depth - 1) \o SubSeq(ctx, depth + 1, Len(ctx))

\* the generator of the with statement the main thread is in has ended
Close(sp) == IF Top = 0 THEN sp ELSE [sp EXCEPT ![Top].closed = TRUE]

\* where an exception that leaves a with statement goes: to the __exit__ of
\* the enclosing with statement, or out of the program
Unwind == IF depth > 1 THEN "exit_glue" ELSE "shutdown"

\* statements of the generator inside its try block: lines 90-93
InGenerator == {"new", "start", "setattr", "yield"}

\* the body of the with statement and the calls it makes
InBody == {"body", "log_rc", "log_stop", "stop_sleep"}

\* statements of the main thread that the try block of start() covers
TryBlock == InGenerator \cup InBody

\* with start(): the generator is entered, up to line 90
CtxEnter ==
    /\ MainRuns /\ mpc = "body" /\ Len(spinners) < MaxCtx
    /\ ctx' = Append(ctx, 0)
    /\ depth' = depth + 1
    /\ mpc' = "new"
    /\ UNCHANGED << objvars, procExit, spinners, gspinner, exc, exitStatus,
                    interrupted, escaped, glued >>

\* start(): spinner = Spinner()
CtxNew ==
    /\ MainRuns /\ mpc = "new"
    /\ spinners' = Append(spinners, NewSpinner)
    /\ ctx' = [ctx EXCEPT ![depth] = Len(spinners) + 1]
    /\ mpc' = "start"
    /\ UNCHANGED << objvars, procExit, gspinner, depth, exc, exitStatus,
                    interrupted, escaped, glued >>

\* start(): spinner.start()
CtxStart ==
    /\ MainRuns /\ mpc = "start"
    /\ spinners' = [spinners EXCEPT ![Top].run = "while"]
    /\ mpc' = "setattr"
    /\ UNCHANGED << objvars, procExit, gspinner, ctx, depth, exc, exitStatus,
                    interrupted, escaped, glued >>

\* start(): setattr(sys.modules[__name__], 'spinner', spinner)
CtxSetattr ==
    /\ MainRuns /\ mpc = "setattr"
    /\ gspinner' = Top
    /\ mpc' = "yield"
    /\ UNCHANGED << objvars, procExit, spinners, ctx, depth, exc, exitStatus,
                    interrupted, escaped, glued >>

\* start(): yield None, the generator is suspended and the Spinner handed
\* to the with statement
CtxYield ==
    /\ MainRuns /\ mpc = "yield"
    /\ spinners' = [spinners EXCEPT ![Top].entered = TRUE]
    /\ mpc' = "enter_glue"
    /\ UNCHANGED << objvars, procExit, gspinner, ctx, depth, exc, exitStatus,
                    interrupted, escaped, glued >>

\* @contextmanager: __enter__ returns and the body of the with statement
\* begins
CtxEnterBody ==
    /\ MainRuns /\ mpc = "enter_glue"
    /\ mpc' = "body"
    /\ UNCHANGED << objvars, procExit, spinners, gspinner, ctx, depth, exc,
                    exitStatus, interrupted, escaped, glued >>

\* module-level warn / error: spinner.log,
\* self.quit = kwargs.pop('quit', False)
CtxLogQuit ==
    /\ MainRuns /\ mpc = "body" /\ gspinner # 0
    /\ \E q \in BOOLEAN :
          spinners' = [spinners EXCEPT ![gspinner].quit = q]
    /\ mpc' = "log_rc"
    /\ UNCHANGED << objvars, procExit, gspinner, ctx, depth, exc, exitStatus,
                    interrupted, escaped, glued >>

\* spinner.log: self.return_code = kwargs.pop('return_code', 0)
CtxLogReturnCode ==
    /\ MainRuns /\ mpc = "log_rc"
    /\ \E rc \in QuitCodes :
          spinners' = [spinners EXCEPT ![gspinner].return_code = rc]
    /\ mpc' = "log_stop"
    /\ UNCHANGED << objvars, procExit, gspinner, ctx, depth, exc, exitStatus,
                    interrupted, escaped, glued >>

\* spinner.log: if self.quit: self.stop(), up to self._stop_event.set()
CtxLogStop ==
    /\ MainRuns /\ mpc = "log_stop"
    /\ IF spinners[gspinner].quit
          THEN /\ spinners' = [spinners EXCEPT ![gspinner].stop_event = TRUE]
               /\ mpc' = "stop_sleep"
          ELSE /\ spinners' = spinners
               /\ mpc' = "body"
    /\ UNCHANGED << objvars, procExit, gspinner, ctx, depth, exc, exitStatus,
                    interrupted, escaped, glued >>

\* the body calls the module-level stop(): spinner.stop(), up to
\* self._stop_event.set()
CtxStop ==
    /\ MainRuns /\ mpc = "body" /\ gspinner # 0
    /\ spinners' = [spinners EXCEPT ![gspinner].stop_event = TRUE]
    /\ mpc' = "stop_sleep"
    /\ UNCHANGED << objvars, procExit, gspinner, ctx, depth, exc, exitStatus,
                    interrupted, escaped, glued >>

\* Spinner.stop called by the body: the rest of it, up to the return
CtxStopReturn ==
    /\ MainRuns /\ mpc = "stop_sleep"
    /\ mpc' = "body"
    /\ UNCHANGED << objvars, procExit, spinners, gspinner, ctx, depth, exc,
                    exitStatus, interrupted, escaped, glued >>

\* the body of the with statement ends normally: __exit__ is called
CtxBodyEnd ==
    /\ MainRuns /\ mpc = "body" /\ depth > 0
    /\ mpc' = "exit_glue"
    /\ UNCHANGED << objvars, procExit, spinners, gspinner, ctx, depth, exc,
                    exitStatus, interrupted, escaped, glued >>

\* the body raises an exception other than KeyboardInterrupt (among them
\* the NameError of a module-level call made before any start()): __exit__
\* is called with it, or it ends the program
CtxRaise ==
    /\ MainRuns /\ mpc = "body"
    /\ exc' = "Exception"
    /\ exitStatus' = StatusOf("Exception")
    /\ mpc' = IF depth = 0 THEN "shutdown" ELSE "exit_glue"
    /\ UNCHANGED << objvars, procExit, spinners, gspinner, ctx, depth,
                    interrupted, escaped, glued >>

\* __exit__ has resumed the generator with next() after a normal end of the
\* body: the generator is at line 93 again, inside its try block
Resumed == mpc = "exit_glue" /\ exc = "none"

\* KeyboardInterrupt is raised where the try block of start() covers it: in
\* the generator before or at the yield, or at the yield once __exit__ has
\* resumed the generator (the except clause is next), or in the body or a
\* call the body makes (__exit__ is called with it)
CtxInterrupt ==
    /\ MainRuns /\ depth > 0
    /\ mpc \in TryBlock \/ Resumed
    /\ interrupted' = TRUE
    /\ exc' = "KeyboardInterrupt"
    /\ exitStatus' = StatusOf("KeyboardInterrupt")
    /\ mpc' = IF mpc \in InBody THEN "exit_glue" ELSE "except"
    /\ UNCHANGED << objvars, procExit, spinners, gspinner, ctx, depth,
                    escaped, glued >>

\* KeyboardInterrupt is raised while spinner.start() (line 91), the thread
\* running already, waits for the thread to report that it has started:
\* the wait is left releasing a lock it does not hold, and the
\* RuntimeError of that release takes the place of the interrupt.
\* `except KeyboardInterrupt` does not catch it, the finally clause is next
CtxInterruptStart ==
    /\ MainRuns /\ mpc = "setattr"
    /\ interrupted' = TRUE
    /\ exc' = "Exception"
    /\ exitStatus' = StatusOf("Exception")
    /\ mpc' = "finally"
    /\ UNCHANGED << objvars, procExit, spinners, gspinner, ctx, depth,
                    escaped, glued >>

\* @contextmanager: __exit__ resumes the generator at the yield, with
\* next() after a normal end of the body, with throw() otherwise, and the
\* try block is left; `except KeyboardInterrupt` catches only that
\* exception.  An interrupt raised between the resumption by next() and
\* the end of the try block is CtxInterrupt
CtxExitResume ==
    /\ MainRuns /\ mpc = "exit_glue"
    /\ mpc' = IF exc = "KeyboardInterrupt" THEN "except" ELSE "finally"
    /\ UNCHANGED << objvars, procExit, spinners, gspinner, ctx, depth, exc,
                    exitStatus, interrupted, escaped, glued >>

\* KeyboardInterrupt is raised in __enter__ after the yield or in __exit__
\* before the generator is resumed: the generator stays suspended, neither
\* its except clause nor its finally clause runs, and the interrupt leaves
\* the with statement
CtxInterruptGlue ==
    /\ MainRuns /\ mpc \in {"enter_glue", "exit_glue"}
    /\ glued' = TRUE
    /\ exc' = "KeyboardInterrupt"
    /\ exitStatus' = StatusOf("KeyboardInterrupt")
    /\ depth' = depth - 1
    /\ mpc' = Unwind
    /\ UNCHANGED << objvars, procExit, spinners, gspinner, ctx, interrupted,
                    escaped >>

\* except KeyboardInterrupt: sys.exit(1)
CtxExcept ==
    /\ MainRuns /\ mpc = "except"
    /\ exc' = "SystemExit"
    /\ exitStatus' = StatusOf("SystemExit")
    /\ mpc' = "finally"
    /\ UNCHANGED << objvars, procExit, spinners, gspinner, ctx, depth,
                    interrupted, escaped, glued >>

\* KeyboardInterrupt is raised in the except clause before sys.exit(1) (the
\* finally clause still runs), or in the finally clause, before or inside
\* stop(): nothing catches it and it leaves start() and the with statement
CtxInterruptClause ==
    /\ MainRuns /\ mpc \in {"except", "finally", "finally_sleep"}
    /\ escaped' = TRUE
    /\ exc' = "KeyboardInterrupt"
    /\ exitStatus' = StatusOf("KeyboardInterrupt")
    /\ IF mpc = "except"
          THEN /\ mpc' = "finally"
               /\ UNCHANGED << spinners, ctx, depth >>
          ELSE /\ spinners' = Close(spinners)
               /\ ctx' = Rest
               /\ depth' = depth - 1
               /\ mpc' = Unwind
    /\ UNCHANGED << objvars, procExit, gspinner, interrupted, glued >>

\* where the main thread goes after the finally clause: on in the enclosing
\* body, or where the exception being propagated takes it
AfterFinally == IF exc = "none" THEN "body" ELSE Unwind

\* finally: stop(), which is spinner.stop() on the module attribute, up to
\* self._stop_event.set(); NameError when the attribute is not set
CtxFinally ==
    /\ MainRuns /\ mpc = "finally"
    /\ IF gspinner = 0
          THEN /\ exc' = "NameError"
               /\ exitStatus' = StatusOf("NameError")
               /\ spinners' = Close(spinners)
               /\ ctx' = Rest
               /\ depth' = depth - 1
               /\ mpc' = Unwind
          ELSE /\ spinners' = [spinners EXCEPT ![gspinner].stop_event = TRUE]
               /\ mpc' = "finally_sleep"
               /\ UNCHANGED << ctx, depth, exc, exitStatus >>
    /\ UNCHANGED << objvars, procExit, gspinner, interrupted, escaped, glued >>

\* Spinner.stop called by the finally clause: the rest of it, then the
\* clause, the generator and the with statement end
CtxFinallyEnd ==
    /\ MainRuns /\ mpc = "finally_sleep"
    /\ spinners' = Close(spinners)
    /\ ctx' = Rest
    /\ depth' = depth - 1
    /\ mpc' = AfterFinally
    /\ UNCHANGED << objvars, procExit, gspinner, exc, exitStatus,
                    interrupted, escaped, glued >>

\* the program ends outside of any with statement
CtxProgramEnd ==
    /\ MainRuns /\ mpc = "body" /\ depth = 0
    /\ mpc' = "shutdown"
    /\ UNCHANGED << objvars, procExit, spinners, gspinner, ctx, depth, exc,
                    exitStatus, interrupted, escaped, glued >>

\* every started Spinner thread (not a daemon) has ended
ThreadsEnded ==
    \A i \in 1..Len(spinners) :
        spinners[i].run \in {"unstarted", "finished"}

\* ctx without its k-th generator
Without(k) == SubSeq(ctx, 1, k - 1) \o SubSeq(ctx, k + 1, Len(ctx))

\* the main thread has ended and a generator left suspended at its yield
\* is finalized: GeneratorExit is raised at line 93 and finally: stop()
\* runs, up to self._stop_event.set().  After sys.exit(1) the interpreter
\* drops the SystemExit, and with it the interrupt that kept the generator
\* alive, before it waits for the threads; an uncaught KeyboardInterrupt is
\* kept until the threads have ended
CtxFinalize ==
    /\ MainRuns /\ mpc = "shutdown" /\ ctx # << >>
    /\ exc = "SystemExit" \/ ThreadsEnded
    /\ spinners' = [spinners EXCEPT ![gspinner].stop_event = TRUE]
    /\ mpc' = "final_sleep"
    /\ UNCHANGED << objvars, procExit, gspinner, ctx, depth, exc, exitStatus,
                    interrupted, escaped, glued >>

\* Spinner.stop called by the finally clause of a generator being
\* finalized: the rest of it, then the clause and the generator end
CtxFinalizeEnd ==
    /\ MainRuns /\ mpc = "final_sleep"
    /\ \E k \in 1..Len(ctx) :
          /\ spinners' = [spinners EXCEPT ![ctx[k]].closed = TRUE]
          /\ ctx' = Without(k)
    /\ mpc' = "shutdown"
    /\ UNCHANGED << objvars, procExit, gspinner, depth, exc, exitStatus,
                    interrupted, escaped, glued >>

\* the interpreter exits once every generator is finalized and every
\* started Spinner thread has ended
CtxShutdown ==
    /\ MainRuns /\ mpc = "shutdown" /\ ctx = << >>
    /\ ThreadsEnded
    /\ procExit' = [exited |-> TRUE, status |-> exitStatus]
    /\ mpc' = "exited"
    /\ UNCHANGED << objvars, spinners, gspinner, ctx, depth, exc, exitStatus,
                    interrupted, escaped, glued >>

\* run() of the i-th Spinner: the loop is left when the stop event is set
CtxRunWhile ==
    \E i \in 1..Len(spinners) :
        /\ MainRuns /\ spinners[i].run = "while"
        /\ spinners[i].stop_event
        /\ spinners' = [spinners EXCEPT ![i].run = "flush"]
        /\ UNCHANGED << objvars, procExit, gspinner, ctx, depth, mpc, exc,
                        exitStatus,
                        interrupted, escaped, glued >>

\* run(): final erase and for message in self.messages: message()
CtxRunFlush ==
    \E i \in 1..Len(spinners) :
        /\ MainRuns /\ spinners[i].run = "flush"
        /\ spinners' = [spinners EXCEPT ![i].run = "ifquit"]
        /\ UNCHANGED << objvars, procExit, gspinner, ctx, depth, mpc, exc,
                        exitStatus,
                        interrupted, escaped, glued >>

\* run(): if self.quit:
CtxRunIfQuit ==
    \E i \in 1..Len(spinners) :
        /\ MainRuns /\ spinners[i].run = "ifquit"
        /\ spinners' = [spinners EXCEPT
                          ![i].run = IF spinners[i].quit THEN "exit"
                                                         ELSE "finished"]
        /\ UNCHANGED << objvars, procExit, gspinner, ctx, depth, mpc, exc,
                        exitStatus,
                        interrupted, escaped, glued >>

\* run(): os._exit(self.return_code)
CtxRunExit ==
    \E i \in 1..Len(spinners) :
        /\ MainRuns /\ spinners[i].run = "exit"
        /\ procExit' = [exited |-> TRUE, status |-> spinners[i].return_code]
        /\ spinners' = [spinners EXCEPT ![i].run = "exited"]
        /\ UNCHANGED << objvars, gspinner, ctx, depth, mpc, exc, exitStatus,
                        interrupted, escaped, glued >>

NextCtx ==
    \/ CtxEnter
    \/ CtxNew
    \/ CtxStart
    \/ CtxSetattr
    \/ CtxYield
    \/ CtxEnterBody
    \/ CtxLogQuit
    \/ CtxLogReturnCode
    \/ CtxLogStop
    \/ CtxStop
    \/ CtxStopReturn
    \/ CtxBodyEnd
    \/ CtxRaise
    \/ CtxInterrupt
    \/ CtxInterruptStart
    \/ CtxExitResume
    \/ CtxInterruptGlue
    \/ CtxExcept
    \/ CtxInterruptClause
    \/ CtxFinally
    \/ CtxFinallyEnd
    \/ CtxProgramEnd
    \/ CtxFinalize
    \/ CtxFinalizeEnd
    \/ CtxShutdown
    \/ CtxRunWhile
    \/ CtxRunFlush
    \/ CtxRunIfQuit
    \/ CtxRunExit

SpecCtx == Init /\ [][NextCtx]_vars

\* ------------------------------------------------------------- properties
IsDeferredCall(c) == c.op \in {"warn", "error"}
IsDeferredEntry(e) == e.level \in {"warn", "error"}

\* the warn / error calls the caller made, in call order
DeferredCalls == SelectSeq(calls, IsDeferredCall)

\* the warn / error calls the Log Sink received, in order of arrival
SinkDeferred == SelectSeq(sink, IsDeferredEntry)

QuitOf(c) == PopValue(c.kw, "quit", FALSE)

\* C1: the Log Sink has received a warn / error call only if stop() has
\* been invoked on the spinner before
C1_SinkOnlyAfterStop ==
    SinkDeferred # << >> => stopCalls > 0

\* a warn / error without quit was flushed after an explicit stop()
C1_Witness ==
    /\ SinkDeferred # << >>
    /\ \A i \in 1..Len(calls) : IsDeferredCall(calls[i]) => ~QuitOf(calls[i])
    /\ \E i \in 1..Len(calls) : calls[i].op = "stop"

\* C2: the warn / error calls received by the Log Sink are, in order, the
\* first warn / error calls the caller made: a call made earlier is never
\* received after a call made later
C2_FlushInCallOrder ==
    /\ Len(SinkDeferred) <= Len(DeferredCalls)
    /\ \A i \in 1..Len(SinkDeferred) :
          /\ SinkDeferred[i].level = DeferredCalls[i].op
          /\ SinkDeferred[i].msg = DeferredCalls[i].msg

\* two deferred calls of different level and text were both flushed
C2_Witness ==
    /\ Len(SinkDeferred) = 2
    /\ SinkDeferred[1].level # SinkDeferred[2].level
    /\ SinkDeferred[1].msg # SinkDeferred[2].msg

\* position in calls of the j-th warn / error call
DeferredIdx(j) ==
    CHOOSE i \in 1..Len(calls) :
        /\ IsDeferredCall(calls[i])
        /\ Cardinality({k \in 1..i : IsDeferredCall(calls[k])}) = j

\* the i-th call has returned to the caller
Returned(i) == i < Len(calls) \/ (i = Len(calls) /\ cpc = "idle")

\* the i-th call was made after the background thread was started
OnStarted(i) == startedAt >= 0 /\ i > startedAt

\* the background thread has left the for loop of run()
PastFlush == bgpc \in {"ifquit", "exit", "finished", "exited"}

\* the background thread has ended and every call has returned
RunEnded == bgpc \in {"finished", "exited"} /\ cpc = "idle"

LevelAndText(e) == << e.level, e.msg >>
OpAndText(c) == << c.op, c.msg >>

\* C3: when the run has ended, every warn / error call made on the started
\* spinner has reached the Log Sink exactly once (the sink's warn / error
\* log is exactly the sequence of calls made)
C3_ExactlyOnce ==
    (RunEnded /\ \A i \in 1..Len(calls) :
                    IsDeferredCall(calls[i]) => OnStarted(i))
    => /\ Len(SinkDeferred) = Len(DeferredCalls)
       /\ \A j \in 1..Len(DeferredCalls) :
             LevelAndText(SinkDeferred[j]) = OpAndText(DeferredCalls[j])

\* the options the claim expects the sink to receive: the caller's options
\* with return_code defaulted to 0 (warn) or 1 (error)
DefaultReturnCode(c) == IF c.op = "error" THEN 1 ELSE 0
ClaimedKw(c) ==
    [x \in (DOMAIN c.kw) \cup {"return_code"} |->
        IF x \in DOMAIN c.kw THEN c.kw[x] ELSE DefaultReturnCode(c)]

\* the caller's options without quit and return_code
OtherKw(c) == [x \in (DOMAIN c.kw) \ {"quit", "return_code"} |-> c.kw[x]]

\* C4 as stated: every warn / error call reaches the Log Sink with the
\* caller's options plus the defaulted return_code
C4_OptionsWithReturnCode ==
    \A j \in 1..Len(SinkDeferred) :
        SinkDeferred[j] = [level |-> DeferredCalls[j].op,
                           msg |-> DeferredCalls[j].msg,
                           kw |-> ClaimedKw(DeferredCalls[j])]

\* C4 amended: every warn / error call reaches the Log Sink at the same
\* level, with the caller's message and the caller's options except quit
\* and return_code, which are not forwarded
C4_OptionsWithoutQuitAndReturnCode ==
    \A j \in 1..Len(SinkDeferred) :
        SinkDeferred[j] = [level |-> DeferredCalls[j].op,
                           msg |-> DeferredCalls[j].msg,
                           kw |-> OtherKw(DeferredCalls[j])]

\* a call that passed return_code and another option was flushed
C4_Witness ==
    \E j \in 1..Len(SinkDeferred) :
        /\ "return_code" \in DOMAIN DeferredCalls[j].kw
        /\ "confirm" \in DOMAIN DeferredCalls[j].kw
        /\ "confirm" \in DOMAIN SinkDeferred[j].kw

\* the i-th call is a warn / error call with quit=True
IsQuitCall(i) == IsDeferredCall(calls[i]) /\ QuitOf(calls[i])

\* number of warn / error calls among the first i calls
DeferredRank(i) == Cardinality({k \in 1..i : IsDeferredCall(calls[k])})

\* C5: when a warn / error call with quit=True has returned, its message is
\* in the pending buffer and the stop event is set; and when the process has
\* terminated, every quitting message in the buffer has reached the Log Sink
C5_QuitMessageForwarded ==
    /\ \A i \in 1..Len(calls) :
          (IsQuitCall(i) /\ Returned(i))
          => (stop_event /\ Len(messages) >= DeferredRank(i))
    /\ procExit.exited
       => \A j \in 1..Len(messages) :
             QuitOf(DeferredCalls[j]) => j <= Len(SinkDeferred)

\* a warn / error call with quit=True has returned
QuitReturned == \E i \in 1..Len(calls) : IsQuitCall(i) /\ Returned(i)

\* the exit code the i-th call asks for
ExitCodeOf(c) == PopValue(c.kw, "return_code", DefaultReturnCode(c))

\* C6: once a warn / error call with quit=True has returned, the background
\* thread does not end without terminating the process, and the process
\* then terminates with the exit code of such a call
C6_QuitTerminates ==
    [][ /\ (QuitReturned /\ bgpc = "ifquit") => bgpc' # "finished"
        /\ (QuitReturned /\ ~procExit.exited /\ procExit'.exited)
           => \E i \in 1..Len(calls) :
                 /\ IsQuitCall(i) /\ Returned(i)
                 /\ procExit'.status = ExitCodeOf(calls[i])
      ]_vars

\* the j-th message was enqueued by a call made after an error call with
\* quit=True had returned
AfterQuitError(j) ==
    \E i \in 1..(DeferredIdx(j) - 1) : calls[i].op = "error" /\ IsQuitCall(i)

\* C7: no message enqueued after an error(quit=True) call has
\* returned reaches the Log Sink
C7_NothingAfterQuit ==
    \A j \in 1..Len(SinkDeferred) : ~AfterQuitError(j)

\* the i-th call enters Spinner.stop
InvokesStop(i) == calls[i].op = "stop" \/ IsQuitCall(i)

\* C8: when stop() has returned on a started spinner, the background thread
\* has written its final erase and has left the flush loop
C8_StopWaitsForFlush ==
    (\E i \in 1..Len(calls) : OnStarted(i) /\ InvokesStop(i) /\ Returned(i))
    => PastFlush

\* the text of the latest info call, None when there was none
LastInfo ==
    LET I == {i \in 1..Len(calls) : calls[i].op = "info"}
    IN  IF I = {} THEN None
        ELSE calls[CHOOSE i \in I : \A k \in I : k <= i].msg

\* the step is a statement of Spinner.info
InfoStep ==
    \/ cpc = "idle" /\ cpc' = "info_sleep"
    \/ cpc = "info_sleep" /\ cpc' = "idle"

\* the step writes a frame to the terminal
FrameStep ==
    /\ Len(stdout') = Len(stdout) + 1
    /\ stdout'[Len(stdout')].kind = "frame"

\* C9: no statement of info calls the Log Sink, and every frame written
\* shows the text of the latest info call (or, once stop() was invoked, the
\* cleared message): a text replaced by a later info is not rendered again
C9_InfoLastWriteWins ==
    [][ /\ InfoStep => sink' = sink
        /\ FrameStep =>
              \/ stdout'[Len(stdout')].msg = LastInfo
              \/ stdout'[Len(stdout')].msg = None /\ stopCalls > 0
      ]_vars

\* info(m1), info(m2) with no frame in between, then a frame showing m2
C9_Witness ==
    /\ Len(calls) = 2
    /\ calls[1].op = "info" /\ calls[2].op = "info"
    /\ calls[1].msg # calls[2].msg
    /\ stdout # << >>
    /\ \A i \in 1..Len(stdout) :
          stdout[i].kind = "frame" /\ stdout[i].msg = calls[2].msg
    /\ sink = << >>

\* the step is a call of verbose or debug
PassStep ==
    /\ Len(calls') = Len(calls) + 1
    /\ calls'[Len(calls')].op \in {"verbose", "debug"}

\* C10: a verbose / debug call hands the message and the options to the Log
\* Sink and returns in the same step, whatever the state of the spinner,
\* and leaves the pending buffer, the current message, the quit flag, the
\* return code and the stop event as they are
C10_PassThroughImmediate ==
    [][ PassStep =>
          /\ sink' = Append(sink, [level |-> calls'[Len(calls')].op,
                                   msg |-> calls'[Len(calls')].msg,
                                   kw |-> calls'[Len(calls')].kw])
          /\ cpc' = "idle"
          /\ UNCHANGED << messages, msg, quit, return_code, stop_event >>
      ]_vars

\* debug with an option reached the sink on a started and stopped spinner
C10_Witness ==
    /\ Len(calls) = 2 /\ startedAt = 0
    /\ calls[1].op = "stop" /\ calls[2].op = "debug"
    /\ stop_event
    /\ sink # << >>
    /\ sink[Len(sink)].level = "debug"
    /\ "confirm" \in DOMAIN sink[Len(sink)].kw
    /\ messages = << >>

\* number of final erases the background thread has written
NumErases == Cardinality({i \in 1..Len(stdout) : stdout[i].kind = "erase"})

\* C11: once stop() has been called a second time the stop event is still
\* set, the background thread has started at most one flush (one final
\* erase, hence one quit check) and no pending message was forwarded twice
C11_StopIdempotent ==
    /\ stopCalls >= 2 => stop_event
    /\ NumErases <= 1
    /\ Len(SinkDeferred) <= Len(messages)

\* stop() was called twice on a started spinner, both calls returned and
\* the background thread has ended
C11_Witness ==
    /\ startedAt = 0
    /\ Len(calls) = 2 /\ calls[1].op = "stop" /\ calls[2].op = "stop"
    /\ stopCalls = 2 /\ cpc = "idle"
    /\ bgpc = "finished" /\ NumErases = 1

\* the with statement that handed the i-th Spinner to its body has been
\* left: its start() generator has ended, or was left suspended at its
\* yield
Exited(i) ==
    \/ spinners[i].closed
    \/ \E k \in (depth + 1)..Len(ctx) : ctx[k] = i

\* C12: every Spinner that a start() context started and handed to its
\* body has its stop event set once that context has exited, whether the
\* contexts follow each other or are nested, and however the body ended
C12_EveryContextStopsItsSpinner ==
    \A i \in 1..Len(spinners) :
        (spinners[i].entered /\ Exited(i)) => spinners[i].stop_event

\* a KeyboardInterrupt was raised while a start() context was active
KeyboardInterrupted == interrupted \/ escaped \/ glued

\* C13: when the process has exited after a KeyboardInterrupt raised while
\* a start() context was active, its status is 1 and every started Spinner
\* has its stop event set and its flush done
C13_InterruptExitsWithOne ==
    (procExit.exited /\ KeyboardInterrupted)
    => /\ procExit.status = 1
       /\ \A i \in 1..Len(spinners) :
             spinners[i].run # "unstarted"
             => /\ spinners[i].stop_event
                /\ spinners[i].run \in
                      {"ifquit", "exit", "finished", "exited"}

\* the caller thread runs a statement of log() for a call without quit=True
NonQuitLogStep ==
    /\ cpc \in {"log_quit", "log_rc", "log_append", "log_ifquit"}
    /\ cpc' # cpc
    /\ ~QuitOf(calls[Len(calls)])

\* C14: a warn / error call without quit=True leaves self.quit and
\* self.return_code as they are
C14_NonQuitCallKeepsQuitRequest ==
    [][ NonQuitLogStep => (quit' = quit /\ return_code' = return_code) ]_vars

\* C15: no frame written to the terminal shows the cleared message
C15_NoFrameWithoutMessage ==
    \A i \in 1..Len(stdout) :
        stdout[i].kind = "frame" => stdout[i].msg # None

\* what the background thread wrote to the terminal
IsRunWrite(w) == w.by = "run"
RunWrites == SelectSeq(stdout, IsRunWrite)

\* the background thread has written the final erase
LeftLoop == bgpc \in {"for", "call", "ifquit", "exit", "finished", "exited"}

\* C16: from the final erase on, the last thing the background thread wrote
\* to the terminal is that erase (no frame follows it), and deferred
\* messages reach the Log Sink only after it
C16_EraseThenFlush ==
    /\ LeftLoop => /\ RunWrites # << >>
                   /\ RunWrites[Len(RunWrites)].kind = "erase"
                   /\ NumErases = 1
    /\ SinkDeferred # << >> => LeftLoop
    /\ bgpc = "erase" => stop_event

\* frames were rendered, then the erase, then a message was flushed
C16_Witness ==
    /\ SinkDeferred # << >>
    /\ Len(RunWrites) >= 2
    /\ RunWrites[1].kind = "frame"
    /\ RunWrites[Len(RunWrites)].kind = "erase"

\* the background thread has seen the stop event and left the polling loop
LeftPolling == bgpc = "erase" \/ LeftLoop

\* C17: once stop() was invoked on a started spinner the background thread
\* eventually ends (thread finished or process exited); it never goes back
\* to polling after it has seen the stop event, and the stop event, once
\* set, stays set
C17_StopEndsThread ==
    /\ (stopCalls > 0 /\ bgpc # "unstarted")
          ~> (bgpc \in {"finished", "exited"})
    /\ [][ /\ LeftPolling => LeftPolling'
           /\ stop_event => stop_event' ]_vars

\* after stop() the thread flushed a message and finished
C17_Witness ==
    /\ stopCalls > 0 /\ startedAt >= 0
    /\ bgpc = "finished"
    /\ SinkDeferred # << >>

\* the thunk log() builds for the call c
ThunkOf(c) == [level |-> c.op, msg |-> c.msg, kw |-> OtherKw(c)]

\* C18: the statements of a warn / error call without quit=True do not set
\* the stop event, do not enter stop(), do not terminate the process and
\* leave self.quit false; the one thing they add is the thunk of the call
\* at the end of the pending buffer
C18_ErrorDoesNotImplyQuit ==
    [][ NonQuitLogStep =>
          /\ stop_event' = stop_event
          /\ stopCalls' = stopCalls
          /\ procExit' = procExit
          /\ ~quit'
          /\ cpc' \in {"log_rc", "log_append", "log_ifquit", "idle"}
          /\ IF cpc = "log_append"
                THEN messages' = Append(messages, ThunkOf(calls[Len(calls)]))
                ELSE messages' = messages
      ]_vars

\* error without options returned on an active spinner that still polls
C18_Witness ==
    /\ startedAt = 0
    /\ Len(calls) >= 1 /\ calls[1].op = "error" /\ calls[1].kw = EmptyKw
    /\ Returned(1)
    /\ messages # << >>
    /\ ~stop_event /\ stopCalls = 0
    /\ bgpc \in {"while", "ifmsg", "render", "wait"}
    /\ ~procExit.exited

\* the pending buffer holds, in call order, the thunks of the warn / error
\* calls made so far (the last call may not have appended yet): nothing
\* was removed or reordered
AppendOnly ==
    /\ Len(messages) <= Len(DeferredCalls)
    /\ Len(messages) >= Len(DeferredCalls) - 1
    /\ \A j \in 1..Len(messages) : messages[j] = ThunkOf(DeferredCalls[j])

\* C19 as stated: nothing is removed or reordered before the flush, and the
\* buffer is empty once the background thread has finished draining
C19_EmptyAfterFlush ==
    /\ ~PastFlush => AppendOnly
    /\ PastFlush => messages = << >>

\* C19 amended: nothing is ever removed or reordered, before, during or
\* after the flush; once the background thread has finished draining, the
\* buffer still holds every message it forwarded
C19_NeverRemoved ==
    /\ AppendOnly
    /\ PastFlush => Len(messages) >= Len(SinkDeferred)

\* the thread has ended and the flushed message is still in the buffer
C19_Witness ==
    /\ bgpc = "finished"
    /\ messages # << >>
    /\ Len(SinkDeferred) = Len(messages)

====
